---- MODULE Spec2Model ----
(***************************************************************************)
(* Model of the semantic-version classifier of the token-list build       *)
(* script (determineVersionIncrement) as a state machine: the loop over   *)
(* the change records is one action per branch of the loop body, the      *)
(* three flags are state, and the final priority resolution is the Return *)
(* action.  The build script that calls it (the glob callback) is a       *)
(* second state machine over the persisted files, one action per stage.   *)
(***************************************************************************)
EXTENDS Integers, Sequences, FiniteSets, TLC

\* determineVersionIncrement: its argument, its locals, its return value
\* and its position
VARIABLES changes, idx, hasMajorChange, hasMinorChange, hasPatchChange,
          result, pc

\* a second activation of determineVersionIncrement that is not running
\* at the moment, with its own argument and locals
VARIABLES suspended

\* the build script: its arguments, the files it reads and writes, its
\* locals and its position
VARIABLES shouldIncrementVersion, gitChanges, baseFile, packageVersion,
          buildFile, tokenlistTemplate, updatedTemplate, exitCode, bpc

\* the build script: the chains/*.json files, the upload credentials of
\* the environment, the tokens local, and the logo uploads that have
\* settled, in the order they settled in
VARIABLES chainFiles, credentials, tokens, uploads

logoVars == <<chainFiles, credentials, tokens, uploads>>

buildVars == <<shouldIncrementVersion, gitChanges, baseFile, packageVersion,
               buildFile, tokenlistTemplate, updatedTemplate, exitCode, bpc,
               logoVars>>

vars == <<changes, idx, hasMajorChange, hasMinorChange, hasPatchChange,
          result, pc, suspended, buildVars>>

(***************************************************************************)
(* Bounds of the model.                                                    *)
(***************************************************************************)
\* longest change list drawn from the small record universe
MaxChanges == 2
\* most tokens (before and after together) of a single modified record
\* drawn from a whole token universe
MaxTokens == 4
\* most tokens of one side of a record of the totality check
MaxSide == 2
\* largest component of the version stored before a build run
MaxVersion == 2
\* largest number of tokens in the chains files of a build run
MaxBuildTokens == 2

(***************************************************************************)
(* Values.  An optional field (chainId?, logoURI?, before?, after?) is    *)
(* the empty tuple when absent and a one-element tuple when present.      *)
(***************************************************************************)
Undefined == <<>>

Some(v) == <<v>>

\* interface Token: one concrete token of the tests
BaseToken ==
    [address |-> "0x123", chainId |-> Some(1), name |-> "Test",
     symbol |-> "TEST", logoURI |-> Some("test.png"), decimals |-> 18]

\* the same token with all four compared fields changed
ChangedMeta(t) ==
    [t EXCEPT !.name = "Other", !.symbol = "OTHER",
              !.logoURI = Some("other.png"), !.decimals = 6]

\* interface Token: tokens that differ in address and chainId (absent, 0
\* and 1), and one more that also differs in all four compared fields
IdentityTokens ==
    { BaseToken,
      [BaseToken EXCEPT !.chainId = Some(0)],
      [BaseToken EXCEPT !.chainId = Undefined],
      [BaseToken EXCEPT !.address = "0x456"],
      ChangedMeta([BaseToken EXCEPT !.address = "0x456"]) }

\* interface Token: BaseToken, the tokens that differ from it in one
\* compared field, and a token at another address
MetadataTokens ==
    { BaseToken,
      [BaseToken EXCEPT !.name = "Other"],
      [BaseToken EXCEPT !.symbol = "OTHER"],
      [BaseToken EXCEPT !.logoURI = Undefined],
      [BaseToken EXCEPT !.decimals = 6],
      [BaseToken EXCEPT !.address = "0x456"] }

\* interface Token: tokens without chainId, at two addresses and with
\* different metadata
NoChainIdTokens ==
    { [BaseToken EXCEPT !.chainId = Undefined],
      [BaseToken EXCEPT !.chainId = Undefined, !.name = "Other"],
      [BaseToken EXCEPT !.chainId = Undefined, !.logoURI = Undefined],
      [BaseToken EXCEPT !.chainId = Undefined, !.address = "0x456"] }

\* the token universes a single modified record is drawn from
TokenUniverses == {IdentityTokens, MetadataTokens, NoChainIdTokens}

\* the tokens used inside multi-record change lists
ListTokens ==
    { BaseToken,
      [BaseToken EXCEPT !.name = "Other"],
      [BaseToken EXCEPT !.address = "0x456"] }

\* interface Token: two tokens of one key, both without chainId and one
\* of them without logoURI
SparseTokens ==
    { [BaseToken EXCEPT !.chainId = Undefined],
      [BaseToken EXCEPT !.chainId = Undefined, !.logoURI = Undefined] }

\* Token[] of at most n tokens
TokenSeqs(S, n) == UNION { [1..k -> S] : k \in 0..n }

\* before?: Token[] / after?: Token[]
OptSeqs(S, n) == {Undefined} \cup { Some(s) : s \in TokenSeqs(S, n) }

\* interface TokenChange
Change(ty, b, a) ==
    [file |-> "chains/1.json", type |-> ty, before |-> b, after |-> a]

\* the record universe of multi-record change lists
ListRecords ==
    { Change("deleted", b, Undefined) : b \in OptSeqs(ListTokens, 1) }
    \cup { Change("added", Undefined, a) : a \in OptSeqs(ListTokens, 1) }
    \cup { Change("modified", b, a) :
             b \in OptSeqs(ListTokens, 1), a \in OptSeqs(ListTokens, 1) }

\* change lists of at most MaxChanges records
ListInputs == UNION { [1..k -> ListRecords] : k \in 0..MaxChanges }

\* the empty change list and the change lists of one record whose sides
\* are missing or hold at most MaxSide tokens, repeated keys included
SparseInputs ==
    {<<>>}
    \cup { <<Change("deleted", b, Undefined)>> :
             b \in OptSeqs(SparseTokens, MaxSide) }
    \cup { <<Change("added", Undefined, a)>> :
             a \in OptSeqs(SparseTokens, MaxSide) }
    \cup { <<Change("modified", b, a)>> :
             b \in OptSeqs(SparseTokens, MaxSide),
             a \in OptSeqs(SparseTokens, MaxSide) }

\* change lists of one modified record over the token universe S, with
\* nb tokens before and na tokens after
RecordInputs(S, nb, na) ==
    { <<Change("modified", Some(b), Some(a))>> :
        b \in [1..nb -> S], a \in [1..na -> S] }

(***************************************************************************)
(* determineVersionIncrement, the body of the loop for a modified record. *)
(***************************************************************************)
\* change.before || []
OrEmpty(opt) == IF opt = Undefined THEN <<>> ELSE opt[1]

\* `${token.address}-${token.chainId}`
TokenKey(token) ==
    token.address \o "-" \o
    (IF token.chainId = Undefined THEN "undefined"
     ELSE ToString(token.chainId[1]))

\* Map.has
MapHas(m, key) == \E i \in 1..Len(m) : m[i].key = key

\* Map.get (of a key the map has)
MapGet(m, key) == m[CHOOSE i \in 1..Len(m) : m[i].key = key].token

\* variant: an existing key keeps the value it has
MapSetKeepFirst(m, key, token) ==
    IF MapHas(m, key) THEN m
    ELSE Append(m, [key |-> key, token |-> token])

\* Map.set: a new key goes last, an existing key keeps its place and
\* takes the new value
MapSet(m, key, token) ==
    IF MapHas(m, key)
    THEN [i \in 1..Len(m) |->
            IF m[i].key = key THEN [key |-> key, token |-> token] ELSE m[i]]
    ELSE Append(m, [key |-> key, token |-> token])

RECURSIVE MapOfFrom(_, _, _)
MapOfFrom(list, i, m) ==
    IF i > Len(list) THEN m
    ELSE MapOfFrom(list, i + 1, MapSet(m, TokenKey(list[i]), list[i]))

\* variant: tokens without chainId are left out of the map
MapOfSkipNoChainId(list) ==
    MapOfFrom(SelectSeq(list, LAMBDA t : t.chainId # Undefined), 1, <<>>)

\* new Map(tokens.map((token) => [key, token]))
MapOf(list) == MapOfFrom(list, 1, <<>>)

\* variant: a removal is detected by the sizes of the two maps
HasRemovedTokenBySize(beforeMap, afterMap) == Len(beforeMap) > Len(afterMap)

\* variant: a token counts as kept when after has a token of its address
HasRemovedTokenByAddress(beforeMap, afterMap) ==
    \E i \in 1..Len(beforeMap) :
      \A j \in 1..Len(afterMap) :
        afterMap[j].token.address # beforeMap[i].token.address

\* variant: only the first entry of beforeMap is looked at
HasRemovedTokenFirstOnly(beforeMap, afterMap) ==
    Len(beforeMap) > 0 /\ ~MapHas(afterMap, beforeMap[1].key)

\* first loop: some key of beforeMap is not in afterMap
HasRemovedToken(beforeMap, afterMap) ==
    \E i \in 1..Len(beforeMap) : ~MapHas(afterMap, beforeMap[i].key)

\* variant: only the first entry of afterMap is looked at
HasAddedTokenFirstOnly(beforeMap, afterMap) ==
    Len(afterMap) > 0 /\ ~MapHas(beforeMap, afterMap[1].key)

\* second loop: some key of afterMap is not in beforeMap
HasAddedToken(beforeMap, afterMap) ==
    \E i \in 1..Len(afterMap) : ~MapHas(beforeMap, afterMap[i].key)

fieldsToCheck == {"name", "symbol", "logoURI", "decimals"}

\* variant: decimals is missing from the compared fields
FieldsDifferNoDecimals(beforeToken, afterToken) ==
    \E field \in fieldsToCheck \ {"decimals"} :
      beforeToken[field] # afterToken[field]

\* variant: the two tokens are compared as a whole
FieldsDifferWholeToken(beforeToken, afterToken) ==
    beforeToken # afterToken

\* variant: the logoURI is compared only when both tokens have one
FieldsDifferIgnoreAbsent(beforeToken, afterToken) ==
    \E field \in fieldsToCheck :
      IF field = "logoURI"
      THEN /\ beforeToken.logoURI # Undefined
           /\ afterToken.logoURI # Undefined
           /\ beforeToken.logoURI # afterToken.logoURI
      ELSE beforeToken[field] # afterToken[field]

\* inner loop over fieldsToCheck: some field differs (strict equality)
FieldsDiffer(beforeToken, afterToken) ==
    \E field \in fieldsToCheck : beforeToken[field] # afterToken[field]

\* variant: the loop ends after the first key found in both maps
ModifiedLoopFirstMatchOnly(beforeMap, afterMap, i, major, patch) ==
    LET matched == { k \in i..Len(beforeMap) :
                       MapHas(afterMap, beforeMap[k].key) }
    IN  IF matched = {} THEN <<major, patch>>
        ELSE LET k == CHOOSE n \in matched : \A o \in matched : n <= o
                 beforeToken == beforeMap[k].token
                 afterToken == MapGet(afterMap, beforeMap[k].key)
             IN  IF \/ beforeToken.address # afterToken.address
                    \/ beforeToken.chainId # afterToken.chainId
                 THEN <<TRUE, patch>>
                 ELSE <<major,
                        patch \/ FieldsDiffer(beforeToken, afterToken)>>

\* variant: the token of before is compared with the token at the same
\* position of after
RECURSIVE ModifiedLoopPositional(_, _, _, _, _)
ModifiedLoopPositional(beforeMap, afterMap, i, major, patch) ==
    IF i > Len(beforeMap) \/ i > Len(afterMap) THEN <<major, patch>>
    ELSE LET beforeToken == beforeMap[i].token
             afterToken == afterMap[i].token
         IN  IF \/ beforeToken.address # afterToken.address
                \/ beforeToken.chainId # afterToken.chainId
             THEN <<TRUE, patch>>
             ELSE ModifiedLoopPositional(beforeMap, afterMap, i + 1, major,
                               patch \/ FieldsDiffer(beforeToken, afterToken))

\* third loop, from entry i of beforeMap on, with the flags so far:
\* returns <<major, patch>>; an address or chainId mismatch under one key
\* sets major and leaves the loop
RECURSIVE ModifiedLoop(_, _, _, _, _)
ModifiedLoop(beforeMap, afterMap, i, major, patch) ==
    IF i > Len(beforeMap) THEN <<major, patch>>
    ELSE IF ~MapHas(afterMap, beforeMap[i].key)
    THEN ModifiedLoop(beforeMap, afterMap, i + 1, major, patch)
    ELSE LET beforeToken == beforeMap[i].token
             afterToken == MapGet(afterMap, beforeMap[i].key)
         IN  IF \/ beforeToken.address # afterToken.address
                \/ beforeToken.chainId # afterToken.chainId
             THEN <<TRUE, patch>>
             ELSE ModifiedLoop(beforeMap, afterMap, i + 1, major,
                               patch \/ FieldsDiffer(beforeToken, afterToken))

\* variant: the minor flag is assigned, not only set
ModifiedFlagsMinorAssigned(change, major, minor, patch) ==
    LET beforeMap == MapOf(OrEmpty(change.before))
        afterMap == MapOf(OrEmpty(change.after))
        major1 == major \/ HasRemovedToken(beforeMap, afterMap)
        minor1 == HasAddedToken(beforeMap, afterMap)
        mp == ModifiedLoop(beforeMap, afterMap, 1, major1, patch)
    IN  [major |-> mp[1], minor |-> minor1, patch |-> mp[2]]

\* variant: the major flag is assigned, not only set
ModifiedFlagsMajorAssigned(change, major, minor, patch) ==
    LET beforeMap == MapOf(OrEmpty(change.before))
        afterMap == MapOf(OrEmpty(change.after))
        major1 == HasRemovedToken(beforeMap, afterMap)
        minor1 == minor \/ HasAddedToken(beforeMap, afterMap)
        mp == ModifiedLoop(beforeMap, afterMap, 1, major1, patch)
    IN  [major |-> mp[1], minor |-> minor1, patch |-> mp[2]]

\* variant: a record without before or without after is passed over
ModifiedFlagsSkipAbsent(change, major, minor, patch) ==
    IF change.before = Undefined \/ change.after = Undefined
    THEN [major |-> major, minor |-> minor, patch |-> patch]
    ELSE LET beforeMap == MapOf(OrEmpty(change.before))
             afterMap == MapOf(OrEmpty(change.after))
             major1 == major \/ HasRemovedToken(beforeMap, afterMap)
             minor1 == minor \/ HasAddedToken(beforeMap, afterMap)
             mp == ModifiedLoop(beforeMap, afterMap, 1, major1, patch)
         IN  [major |-> mp[1], minor |-> minor1, patch |-> mp[2]]

\* variant: the added-token loop is skipped once a removal was found
ModifiedFlagsAddedAfterRemoved(change, major, minor, patch) ==
    LET beforeMap == MapOf(OrEmpty(change.before))
        afterMap == MapOf(OrEmpty(change.after))
        removed == HasRemovedToken(beforeMap, afterMap)
        major1 == major \/ removed
        minor1 == minor \/ (~removed /\ HasAddedToken(beforeMap, afterMap))
        mp == ModifiedLoop(beforeMap, afterMap, 1, major1, patch)
    IN  [major |-> mp[1], minor |-> minor1, patch |-> mp[2]]

\* the flags after the body of the loop for one modified record
ModifiedFlags(change, major, minor, patch) ==
    LET beforeMap == MapOf(OrEmpty(change.before))
        afterMap == MapOf(OrEmpty(change.after))
        major1 == major \/ HasRemovedToken(beforeMap, afterMap)
        minor1 == minor \/ HasAddedToken(beforeMap, afterMap)
        mp == ModifiedLoop(beforeMap, afterMap, 1, major1, patch)
    IN  [major |-> mp[1], minor |-> minor1, patch |-> mp[2]]

\* variant: the minor flag is tested before the major flag
HighestPriorityMinorFirst(major, minor, patch) ==
    IF minor THEN "minor"
    ELSE IF major THEN "major"
    ELSE IF patch THEN "patch"
    ELSE "null"

\* "Return highest priority change"
HighestPriority(major, minor, patch) ==
    IF major THEN "major"
    ELSE IF minor THEN "minor"
    ELSE IF patch THEN "patch"
    ELSE "null"

\* the flags after the loop over the records i.. of cl
RECURSIVE FlagsFrom(_, _, _)
FlagsFrom(cl, i, flags) ==
    IF i > Len(cl) THEN flags
    ELSE FlagsFrom(cl, i + 1,
           IF cl[i].type = "deleted" THEN [flags EXCEPT !.major = TRUE]
           ELSE IF cl[i].type = "added" THEN [flags EXCEPT !.minor = TRUE]
           ELSE IF cl[i].type = "modified"
           THEN ModifiedFlags(cl[i], flags.major, flags.minor, flags.patch)
           ELSE flags)

\* determineVersionIncrement as a function of its argument
determineVersionIncrement(cl) ==
    LET flags == FlagsFrom(cl, 1, [major |-> FALSE, minor |-> FALSE,
                                   patch |-> FALSE])
    IN  HighestPriority(flags.major, flags.minor, flags.patch)

(***************************************************************************)
(* The copy of determineVersionIncrement in the test file.  It differs    *)
(* from the build script in the expression of the key.                    *)
(***************************************************************************)
\* `${token.address}-${token.chainId || "undefined"}`: a chainId that is
\* absent or 0 is falsy
TestTokenKey(token) ==
    token.address \o "-" \o
    (IF token.chainId = Undefined \/ token.chainId[1] = 0 THEN "undefined"
     ELSE ToString(token.chainId[1]))

RECURSIVE TestMapOfFrom(_, _, _)
TestMapOfFrom(list, i, m) ==
    IF i > Len(list) THEN m
    ELSE TestMapOfFrom(list, i + 1,
                       MapSet(m, TestTokenKey(list[i]), list[i]))

\* new Map(tokens.map((token) => [key, token]))
TestMapOf(list) == TestMapOfFrom(list, 1, <<>>)

\* the flags after the body of the loop for one modified record
TestModifiedFlags(change, major, minor, patch) ==
    LET beforeMap == TestMapOf(OrEmpty(change.before))
        afterMap == TestMapOf(OrEmpty(change.after))
        major1 == major \/ HasRemovedToken(beforeMap, afterMap)
        minor1 == minor \/ HasAddedToken(beforeMap, afterMap)
        mp == ModifiedLoop(beforeMap, afterMap, 1, major1, patch)
    IN  [major |-> mp[1], minor |-> minor1, patch |-> mp[2]]

\* the flags after the loop over the records i.. of cl
RECURSIVE TestFlagsFrom(_, _, _)
TestFlagsFrom(cl, i, flags) ==
    IF i > Len(cl) THEN flags
    ELSE TestFlagsFrom(cl, i + 1,
           IF cl[i].type = "deleted" THEN [flags EXCEPT !.major = TRUE]
           ELSE IF cl[i].type = "added" THEN [flags EXCEPT !.minor = TRUE]
           ELSE IF cl[i].type = "modified"
           THEN TestModifiedFlags(cl[i], flags.major, flags.minor,
                                  flags.patch)
           ELSE flags)

\* determineVersionIncrement of the test file as a function of its
\* argument
determineVersionIncrementTest(cl) ==
    LET flags == TestFlagsFrom(cl, 1, [major |-> FALSE, minor |-> FALSE,
                                       patch |-> FALSE])
    IN  HighestPriority(flags.major, flags.minor, flags.patch)

(***************************************************************************)
(* The build script: values and pure parts.                                *)
(***************************************************************************)
\* sysexits(3): const EX_DATAERR = 65
EX_DATAERR == 65

\* the versions base.tokenlist.json may hold before a run
Versions ==
    [major : 0..MaxVersion, minor : 0..MaxVersion, patch : 0..MaxVersion]

\* the timestamp base.tokenlist.json holds before a run
StoredTimestamp == "2024-01-01T00:00:00.000Z"

\* new Date().toISOString() during the run
CurrentTimestamp == "2025-01-01T00:00:00.000Z"

\* `${newVersion.major}.${newVersion.minor}.${newVersion.patch}`
VersionString(v) ==
    ToString(v.major) \o "." \o ToString(v.minor) \o "." \o
    ToString(v.patch)

\* the --git-changes argument: missing, or the text after the "=" sign,
\* which is empty, or not base64 of JSON, or base64 of the JSON of a
\* change list
GitChangesArgs ==
    { Undefined,
      Some([kind |-> "empty"]),
      Some([kind |-> "garbage"]),
      Some([kind |-> "base64json", value |-> <<>>]),
      Some([kind |-> "base64json",
            value |-> <<Change("deleted", Some(<<BaseToken>>), Undefined)>>]),
      Some([kind |-> "base64json",
            value |-> <<Change("added", Undefined, Some(<<BaseToken>>))>>]),
      Some([kind |-> "base64json",
            value |-> <<Change("modified", Some(<<BaseToken>>),
                          Some(<<[BaseToken EXCEPT !.name = "Other"]>>))>>]),
      Some([kind |-> "base64json",
            value |-> <<Change("modified", Some(<<BaseToken>>),
                          Some(<<BaseToken>>))>>]) }

\* gitChanges || ""
OrEmptyString(arg) == IF arg = Undefined THEN [kind |-> "empty"] ELSE arg[1]

\* variant: text that cannot be decoded counts as a deleted file
parseGitChangesFailsClosed(gitChangesString) ==
    IF gitChangesString.kind = "empty" THEN <<>>
    ELSE IF gitChangesString.kind = "base64json" THEN gitChangesString.value
    ELSE <<Change("deleted", Undefined, Undefined)>>

\* parseGitChanges: the empty list for empty text and for text that is
\* not base64 of JSON
parseGitChanges(gitChangesString) ==
    IF gitChangesString.kind = "empty" THEN <<>>
    ELSE IF gitChangesString.kind = "base64json" THEN gitChangesString.value
    ELSE <<>>

\* variant: a minor increment keeps the patch number
NewVersionKeepPatch(version, incrementType) ==
    IF incrementType = "major"
    THEN [major |-> version.major + 1, minor |-> 0, patch |-> 0]
    ELSE IF incrementType = "minor"
    THEN [version EXCEPT !.minor = version.minor + 1]
    ELSE IF incrementType = "patch"
    THEN [version EXCEPT !.patch = version.patch + 1]
    ELSE version

\* variant: a patch increment leaves the patch number as it is
NewVersionPatchForgotten(version, incrementType) ==
    IF incrementType = "major"
    THEN [major |-> version.major + 1, minor |-> 0, patch |-> 0]
    ELSE IF incrementType = "minor"
    THEN [version EXCEPT !.minor = version.minor + 1, !.patch = 0]
    ELSE version

\* switch (incrementType): the new version
NewVersion(version, incrementType) ==
    IF incrementType = "major"
    THEN [major |-> version.major + 1, minor |-> 0, patch |-> 0]
    ELSE IF incrementType = "minor"
    THEN [version EXCEPT !.minor = version.minor + 1, !.patch = 0]
    ELSE IF incrementType = "patch"
    THEN [version EXCEPT !.patch = version.patch + 1]
    ELSE version

\* a logoURI is text; what the script looks at is whether it starts with
\* ".." (a path relative to the chains directory) and what follows
LogoPath(rest) == [relative |-> TRUE, rest |-> rest]

LogoText(text) == [relative |-> FALSE, rest |-> text]

\* tokens of the chains files: two with a logo file, one without logoURI,
\* one whose logoURI is a URL already
RelativeLogoToken ==
    [address |-> "0xaaa", chainId |-> 1, symbol |-> "AAA",
     logoURI |-> Some(LogoPath("/logos/aaa.png"))]

OtherLogoToken ==
    [address |-> "0xbbb", chainId |-> 1, symbol |-> "BBB",
     logoURI |-> Some(LogoPath("/logos/bbb.png"))]

NoLogoToken ==
    [address |-> "0xccc", chainId |-> 1, symbol |-> "CCC",
     logoURI |-> Undefined]

UrlLogoToken ==
    [address |-> "0xddd", chainId |-> 1, symbol |-> "DDD",
     logoURI |-> Some(LogoText("https://example.org/ddd.png"))]

\* an entry of a chains file without address
NoAddressToken == [chainId |-> 1, symbol |-> "EEE", logoURI |-> Undefined]

\* the token lists the chains files may hold
ChainsTokenLists ==
    TokenSeqs({RelativeLogoToken, OtherLogoToken, NoLogoToken, UrlLogoToken},
              MaxBuildTokens)

\* logoURI.replace(/^\.\./, "https://github.com/tallycash/token-list/raw/main")
GitHubURL(uri) ==
    IF uri.relative
    THEN LogoText("https://github.com/tallycash/token-list/raw/main"
                  \o uri.rest)
    ELSE uri

\* {...token, logoURI: token.logoURI ? token.logoURI.replace(...) : undefined}
WithGitHubLogo(token) ==
    IF token.logoURI = Undefined THEN token
    ELSE [token EXCEPT !.logoURI = Some(GitHubURL(token.logoURI[1]))]

\* result.pin.cid of the uploaded file
Cid(uri) == "cid" \o uri.rest

\* {...token, logoURI: `ipfs://${result.pin.cid}`}
WithIpfsLogo(token) ==
    [token EXCEPT !.logoURI = Some(LogoText("ipfs://" \o Cid(token.logoURI[1])))]

\* what the async callback of tokens.map returns for the token at
\* position i, given the uploads that have settled
UploadResult(token, i, settled) ==
    IF token.logoURI = Undefined THEN token
    ELSE LET k == CHOOSE n \in 1..Len(settled) : settled[n].index = i
         IN  IF settled[k].ok THEN WithIpfsLogo(token)
             ELSE WithGitHubLogo(token)

\* the uploads that have not settled yet
PendingUploads ==
    { i \in 1..Len(tokens) :
        /\ tokens[i].logoURI # Undefined
        /\ \A k \in 1..Len(uploads) : uploads[k].index # i }

\* no build script runs: its variables hold fixed values
NoBuild ==
    /\ shouldIncrementVersion = FALSE
    /\ gitChanges = Undefined
    /\ baseFile = [version |-> [major |-> 0, minor |-> 0, patch |-> 0],
                   timestamp |-> StoredTimestamp]
    /\ packageVersion = "0.0.0"
    /\ buildFile = Undefined
    /\ tokenlistTemplate = Undefined
    /\ updatedTemplate = Undefined
    /\ exitCode = 0
    /\ bpc = "none"
    /\ chainFiles = Undefined
    /\ credentials = FALSE
    /\ tokens = <<>>
    /\ uploads = <<>>

(***************************************************************************)
(* The state machine of determineVersionIncrement.                         *)
(***************************************************************************)
Init ==
    /\ \/ changes \in ListInputs
       \/ \E S \in TokenUniverses :
            \E nb \in 0..MaxTokens : \E na \in 0..(MaxTokens - nb) :
              changes \in RecordInputs(S, nb, na)
    /\ idx = 1
    /\ hasMajorChange = FALSE
    /\ hasMinorChange = FALSE
    /\ hasPatchChange = FALSE
    /\ result = "pending"
    /\ pc = "loop"
    /\ suspended = Undefined
    /\ NoBuild

\* variant: a deleted file counts only when it had tokens
ProcessDeletedIfTokens ==
    /\ pc = "loop"
    /\ idx <= Len(changes)
    /\ changes[idx].type = "deleted"
    /\ hasMajorChange' = (hasMajorChange \/ OrEmpty(changes[idx].before) # <<>>)
    /\ idx' = idx + 1
    /\ UNCHANGED <<changes, hasMinorChange, hasPatchChange, result, pc>>
    /\ UNCHANGED <<suspended, buildVars>>

\* change.type === "deleted"
ProcessDeleted ==
    /\ pc = "loop"
    /\ idx <= Len(changes)
    /\ changes[idx].type = "deleted"
    /\ hasMajorChange' = TRUE
    /\ idx' = idx + 1
    /\ UNCHANGED <<changes, hasMinorChange, hasPatchChange, result, pc>>
    /\ UNCHANGED <<suspended, buildVars>>

\* variant: an added file counts only when it has tokens
ProcessAddedIfTokens ==
    /\ pc = "loop"
    /\ idx <= Len(changes)
    /\ changes[idx].type = "added"
    /\ hasMinorChange' = (hasMinorChange \/ OrEmpty(changes[idx].after) # <<>>)
    /\ idx' = idx + 1
    /\ UNCHANGED <<changes, hasMajorChange, hasPatchChange, result, pc>>
    /\ UNCHANGED <<suspended, buildVars>>

\* change.type === "added"
ProcessAdded ==
    /\ pc = "loop"
    /\ idx <= Len(changes)
    /\ changes[idx].type = "added"
    /\ hasMinorChange' = TRUE
    /\ idx' = idx + 1
    /\ UNCHANGED <<changes, hasMajorChange, hasPatchChange, result, pc>>
    /\ UNCHANGED <<suspended, buildVars>>

\* change.type === "modified"
ProcessModified ==
    /\ pc = "loop"
    /\ idx <= Len(changes)
    /\ changes[idx].type = "modified"
    /\ LET f == ModifiedFlags(changes[idx], hasMajorChange, hasMinorChange,
                              hasPatchChange)
       IN  /\ hasMajorChange' = f.major
           /\ hasMinorChange' = f.minor
           /\ hasPatchChange' = f.patch
    /\ idx' = idx + 1
    /\ UNCHANGED <<changes, result, pc>>
    /\ UNCHANGED <<suspended, buildVars>>

\* the loop is over: return the highest priority change, or null
Return ==
    /\ pc = "loop"
    /\ idx > Len(changes)
    /\ result' = HighestPriority(hasMajorChange, hasMinorChange,
                                 hasPatchChange)
    /\ pc' = "done"
    /\ UNCHANGED <<changes, idx, hasMajorChange, hasMinorChange,
                   hasPatchChange>>
    /\ UNCHANGED <<suspended, buildVars>>

Next == ProcessDeleted \/ ProcessAdded \/ ProcessModified \/ Return

Spec == Init /\ [][Next]_vars

\* the call with a change list of one modified record
RecordInit ==
    /\ \E S \in TokenUniverses :
         \E nb \in 0..MaxTokens : \E na \in 0..(MaxTokens - nb) :
           changes \in RecordInputs(S, nb, na)
    /\ idx = 1
    /\ hasMajorChange = FALSE
    /\ hasMinorChange = FALSE
    /\ hasPatchChange = FALSE
    /\ result = "pending"
    /\ pc = "loop"
    /\ suspended = Undefined
    /\ NoBuild

RecordNext == ProcessModified \/ Return

RecordSpec == RecordInit /\ [][RecordNext]_vars

\* the call with a change list of several records
ListInit ==
    /\ changes \in ListInputs
    /\ idx = 1
    /\ hasMajorChange = FALSE
    /\ hasMinorChange = FALSE
    /\ hasPatchChange = FALSE
    /\ result = "pending"
    /\ pc = "loop"
    /\ suspended = Undefined
    /\ NoBuild

ListSpec == ListInit /\ [][Next]_vars

\* the function called on a change list with missing sides and repeated
\* keys
SparseInit ==
    /\ changes \in SparseInputs
    /\ idx = 1
    /\ hasMajorChange = FALSE
    /\ hasMinorChange = FALSE
    /\ hasPatchChange = FALSE
    /\ result = "pending"
    /\ pc = "loop"
    /\ suspended = Undefined
    /\ NoBuild

\* the function is synchronous: it runs until it returns
SparseSpec == SparseInit /\ [][Next]_vars /\ WF_vars(Next)

(***************************************************************************)
(* Repeated and interleaved calls of determineVersionIncrement: every     *)
(* call has its own changes argument and its own three flags.             *)
(***************************************************************************)
\* the arguments of the calls: the change lists of at most one record
CallInputs == {<<>>} \cup { <<r>> : r \in ListRecords }

\* the argument and locals of the running activation
Activation ==
    [changes |-> changes, idx |-> idx, hasMajorChange |-> hasMajorChange,
     hasMinorChange |-> hasMinorChange, hasPatchChange |-> hasPatchChange,
     result |-> result, pc |-> pc]

RepeatInit ==
    /\ changes \in CallInputs
    /\ idx = 1
    /\ hasMajorChange = FALSE
    /\ hasMinorChange = FALSE
    /\ hasPatchChange = FALSE
    /\ result = "pending"
    /\ pc = "loop"
    /\ suspended = Undefined
    /\ NoBuild

\* variant: the three flags live outside the function and keep their
\* values from the call before
CallAgainKeepsFlags ==
    /\ pc = "done"
    /\ changes' \in CallInputs
    /\ idx' = 1
    /\ result' = "pending"
    /\ pc' = "loop"
    /\ UNCHANGED <<hasMajorChange, hasMinorChange, hasPatchChange>>
    /\ UNCHANGED <<suspended, buildVars>>

\* the caller calls the function again after it has returned: the flags
\* are declared and set to false at the start of the function
CallAgain ==
    /\ pc = "done"
    /\ changes' \in CallInputs
    /\ idx' = 1
    /\ hasMajorChange' = FALSE
    /\ hasMinorChange' = FALSE
    /\ hasPatchChange' = FALSE
    /\ result' = "pending"
    /\ pc' = "loop"
    /\ UNCHANGED <<suspended, buildVars>>

\* an independent caller starts a call of its own while the first
\* activation is where it is
CallByOther ==
    /\ suspended = Undefined
    /\ suspended' = Some(Activation)
    /\ changes' \in CallInputs
    /\ idx' = 1
    /\ hasMajorChange' = FALSE
    /\ hasMinorChange' = FALSE
    /\ hasPatchChange' = FALSE
    /\ result' = "pending"
    /\ pc' = "loop"
    /\ UNCHANGED buildVars

\* the other activation goes on: each activation continues with its own
\* argument and locals
Switch ==
    /\ suspended # Undefined
    /\ suspended' = Some(Activation)
    /\ changes' = suspended[1].changes
    /\ idx' = suspended[1].idx
    /\ hasMajorChange' = suspended[1].hasMajorChange
    /\ hasMinorChange' = suspended[1].hasMinorChange
    /\ hasPatchChange' = suspended[1].hasPatchChange
    /\ result' = suspended[1].result
    /\ pc' = suspended[1].pc
    /\ UNCHANGED buildVars

RepeatNext ==
    \/ ProcessDeleted \/ ProcessAdded \/ ProcessModified \/ Return
    \/ CallAgain \/ CallByOther \/ Switch

RepeatSpec == RepeatInit /\ [][RepeatNext]_vars

(***************************************************************************)
(* The state machine of the build script.                                  *)
(***************************************************************************)
classifierVars == <<changes, idx, hasMajorChange, hasMinorChange,
                    hasPatchChange, result, pc, suspended>>

\* the script starts: base.tokenlist.json and package.json hold the same
\* version, build/tallycash.tokenlist.json is not there yet
BuildInit ==
    /\ changes = <<>>
    /\ idx = 1
    /\ hasMajorChange = FALSE
    /\ hasMinorChange = FALSE
    /\ hasPatchChange = FALSE
    /\ result = "pending"
    /\ pc = "idle"
    /\ suspended = Undefined
    /\ shouldIncrementVersion \in BOOLEAN
    /\ gitChanges \in GitChangesArgs
    /\ \E v \in Versions :
         /\ baseFile = [version |-> v, timestamp |-> StoredTimestamp]
         /\ packageVersion = VersionString(v)
    /\ buildFile = Undefined
    /\ tokenlistTemplate = Undefined
    /\ updatedTemplate = Undefined
    /\ exitCode = 0
    /\ bpc = "start"
    /\ chainFiles \in {Undefined, Some(<<RelativeLogoToken, NoLogoToken>>),
                        Some(<<RelativeLogoToken, NoAddressToken>>)}
    /\ credentials \in BOOLEAN
    /\ tokens = <<>>
    /\ uploads = <<>>

\* the chains files are checked and parsed into tokens, each token with
\* the chainId of its file; a bad file name, bad JSON or a token without
\* address ends the run with EX_DATAERR
ReadChains ==
    /\ bpc = "start"
    /\ IF \/ chainFiles = Undefined
          \/ \E i \in 1..Len(chainFiles[1]) :
               "address" \notin DOMAIN chainFiles[1][i]
       THEN /\ bpc' = "exited"
            /\ exitCode' = EX_DATAERR
            /\ tokens' = tokens
       ELSE /\ bpc' = "tokens"
            /\ exitCode' = exitCode
            /\ tokens' = chainFiles[1]
    /\ UNCHANGED <<shouldIncrementVersion, gitChanges, baseFile,
                   packageVersion, buildFile, tokenlistTemplate,
                   updatedTemplate>>
    /\ UNCHANGED <<chainFiles, credentials, uploads>>
    /\ UNCHANGED classifierVars

\* with credentials: tokens.map starts one upload per token with a
\* logoURI; a token without logoURI is returned as it is
StartUploads ==
    /\ bpc = "tokens"
    /\ credentials
    /\ uploads' = <<>>
    /\ bpc' = "uploading"
    /\ UNCHANGED <<shouldIncrementVersion, gitChanges, baseFile,
                   packageVersion, buildFile, tokenlistTemplate,
                   updatedTemplate, exitCode>>
    /\ UNCHANGED <<chainFiles, credentials, tokens>>
    /\ UNCHANGED classifierVars

\* one of the running uploads settles: the file was read and uploaded,
\* or reading or uploading threw and the catch took over
SettleUpload ==
    /\ bpc = "uploading"
    /\ \E i \in PendingUploads, ok \in BOOLEAN :
         uploads' = Append(uploads, [index |-> i, ok |-> ok])
    /\ UNCHANGED <<shouldIncrementVersion, gitChanges, baseFile,
                   packageVersion, buildFile, tokenlistTemplate,
                   updatedTemplate, exitCode, bpc>>
    /\ UNCHANGED <<chainFiles, credentials, tokens>>
    /\ UNCHANGED classifierVars

\* variant: the results are taken in the order the uploads settled in,
\* the tokens without logoURI first
FinishUploadsInSettleOrder ==
    /\ bpc = "uploading"
    /\ PendingUploads = {}
    /\ tokens' =
         SelectSeq(tokens, LAMBDA t : t.logoURI = Undefined)
         \o [k \in 1..Len(uploads) |->
               UploadResult(tokens[uploads[k].index], uploads[k].index,
                            uploads)]
    /\ bpc' = "logos"
    /\ UNCHANGED <<shouldIncrementVersion, gitChanges, baseFile,
                   packageVersion, buildFile, tokenlistTemplate,
                   updatedTemplate, exitCode>>
    /\ UNCHANGED <<chainFiles, credentials, uploads>>
    /\ UNCHANGED classifierVars

\* tokens = await Promise.all(...): all uploads have settled, the results
\* are taken by position
FinishUploads ==
    /\ bpc = "uploading"
    /\ PendingUploads = {}
    /\ tokens' = [i \in 1..Len(tokens) |->
                    UploadResult(tokens[i], i, uploads)]
    /\ bpc' = "logos"
    /\ UNCHANGED <<shouldIncrementVersion, gitChanges, baseFile,
                   packageVersion, buildFile, tokenlistTemplate,
                   updatedTemplate, exitCode>>
    /\ UNCHANGED <<chainFiles, credentials, uploads>>
    /\ UNCHANGED classifierVars

\* without credentials every token gets the GitHub raw URL of its logo;
\* no file is written
ResolveLogos ==
    /\ bpc = "tokens"
    /\ ~credentials
    /\ tokens' = [i \in 1..Len(tokens) |-> WithGitHubLogo(tokens[i])]
    /\ bpc' = "logos"
    /\ UNCHANGED <<shouldIncrementVersion, gitChanges, baseFile,
                   packageVersion, buildFile, tokenlistTemplate,
                   updatedTemplate, exitCode>>
    /\ UNCHANGED <<chainFiles, credentials, uploads>>
    /\ UNCHANGED classifierVars

\* variant: reading the template also stamps base.tokenlist.json
ReadTemplateStamps ==
    /\ bpc = "logos"
    /\ tokenlistTemplate' = Some(baseFile)
    /\ updatedTemplate' = Some(baseFile)
    /\ baseFile' = [baseFile EXCEPT !.timestamp = CurrentTimestamp]
    /\ bpc' = "template"
    /\ UNCHANGED <<shouldIncrementVersion, gitChanges, packageVersion,
                   buildFile, exitCode>>
    /\ UNCHANGED logoVars
    /\ UNCHANGED classifierVars

\* tokenlistTemplate = JSON.parse(read base.tokenlist.json);
\* updatedTemplate = tokenlistTemplate
ReadTemplate ==
    /\ bpc = "logos"
    /\ tokenlistTemplate' = Some(baseFile)
    /\ updatedTemplate' = Some(baseFile)
    /\ bpc' = "template"
    /\ UNCHANGED <<shouldIncrementVersion, gitChanges, baseFile,
                   packageVersion, buildFile, exitCode>>
    /\ UNCHANGED logoVars
    /\ UNCHANGED classifierVars

\* if (shouldIncrementVersion) is false
SkipIncrement ==
    /\ bpc = "template"
    /\ ~shouldIncrementVersion
    /\ bpc' = "assemble"
    /\ UNCHANGED <<shouldIncrementVersion, gitChanges, baseFile,
                   packageVersion, buildFile, tokenlistTemplate,
                   updatedTemplate, exitCode>>
    /\ UNCHANGED logoVars
    /\ UNCHANGED classifierVars

\* variant: the changes are classified whenever --git-changes is given
CallClassifierOnChanges ==
    /\ bpc = "template"
    /\ shouldIncrementVersion \/ gitChanges # Undefined
    /\ changes' = parseGitChanges(OrEmptyString(gitChanges))
    /\ idx' = 1
    /\ hasMajorChange' = FALSE
    /\ hasMinorChange' = FALSE
    /\ hasPatchChange' = FALSE
    /\ result' = "pending"
    /\ pc' = "loop"
    /\ bpc' = "classify"
    /\ UNCHANGED suspended
    /\ UNCHANGED logoVars
    /\ UNCHANGED <<shouldIncrementVersion, gitChanges, baseFile,
                   packageVersion, buildFile, tokenlistTemplate,
                   updatedTemplate, exitCode>>

\* changes = parseGitChanges(gitChanges || ""), then the call of
\* determineVersionIncrement(changes)
CallClassifier ==
    /\ bpc = "template"
    /\ shouldIncrementVersion
    /\ changes' = parseGitChanges(OrEmptyString(gitChanges))
    /\ idx' = 1
    /\ hasMajorChange' = FALSE
    /\ hasMinorChange' = FALSE
    /\ hasPatchChange' = FALSE
    /\ result' = "pending"
    /\ pc' = "loop"
    /\ bpc' = "classify"
    /\ UNCHANGED suspended
    /\ UNCHANGED logoVars
    /\ UNCHANGED <<shouldIncrementVersion, gitChanges, baseFile,
                   packageVersion, buildFile, tokenlistTemplate,
                   updatedTemplate, exitCode>>

\* variant: without semantic changes the template still gets a new
\* timestamp
NoSemanticChangeStamps ==
    /\ bpc = "classify"
    /\ pc = "done"
    /\ result = "null"
    /\ updatedTemplate' =
         Some([tokenlistTemplate[1] EXCEPT !.timestamp = CurrentTimestamp])
    /\ bpc' = "assemble"
    /\ UNCHANGED <<shouldIncrementVersion, gitChanges, baseFile,
                   packageVersion, buildFile, tokenlistTemplate, exitCode>>
    /\ UNCHANGED logoVars
    /\ UNCHANGED classifierVars

\* incrementType === null: updatedTemplate = tokenlistTemplate
NoSemanticChange ==
    /\ bpc = "classify"
    /\ pc = "done"
    /\ result = "null"
    /\ updatedTemplate' = tokenlistTemplate
    /\ bpc' = "assemble"
    /\ UNCHANGED <<shouldIncrementVersion, gitChanges, baseFile,
                   packageVersion, buildFile, tokenlistTemplate, exitCode>>
    /\ UNCHANGED logoVars
    /\ UNCHANGED classifierVars

\* the new version and timestamp go into updatedTemplate
ComputeVersion ==
    /\ bpc = "classify"
    /\ pc = "done"
    /\ result # "null"
    /\ updatedTemplate' =
         Some([tokenlistTemplate[1] EXCEPT
                 !.version = NewVersion(tokenlistTemplate[1].version, result),
                 !.timestamp = CurrentTimestamp])
    /\ bpc' = "computed"
    /\ UNCHANGED <<shouldIncrementVersion, gitChanges, baseFile,
                   packageVersion, buildFile, tokenlistTemplate, exitCode>>
    /\ UNCHANGED logoVars
    /\ UNCHANGED classifierVars

\* fs.writeFileSync(base.tokenlist.json, updatedTemplate)
WriteBase ==
    /\ bpc = "computed"
    /\ baseFile' = updatedTemplate[1]
    /\ bpc' = "baseWritten"
    /\ UNCHANGED <<shouldIncrementVersion, gitChanges, packageVersion,
                   buildFile, tokenlistTemplate, updatedTemplate, exitCode>>
    /\ UNCHANGED logoVars
    /\ UNCHANGED classifierVars

\* package.json is read, its version set to the new one, and written
WritePackage ==
    /\ bpc = "baseWritten"
    /\ packageVersion' = VersionString(updatedTemplate[1].version)
    /\ bpc' = "assemble"
    /\ UNCHANGED <<shouldIncrementVersion, gitChanges, baseFile, buildFile,
                   tokenlistTemplate, updatedTemplate, exitCode>>
    /\ UNCHANGED logoVars
    /\ UNCHANGED classifierVars

\* variant: an invalid list sets the exit code and the run goes on
ValidateGoesOn ==
    /\ bpc = "assemble"
    /\ \E valid \in BOOLEAN :
         IF valid THEN bpc' = "valid" /\ exitCode' = exitCode
         ELSE bpc' = "valid" /\ exitCode' = EX_DATAERR
    /\ UNCHANGED <<shouldIncrementVersion, gitChanges, baseFile,
                   packageVersion, buildFile, tokenlistTemplate,
                   updatedTemplate>>
    /\ UNCHANGED logoVars
    /\ UNCHANGED classifierVars

\* newTokenList = {...updatedTemplate, tokens} is validated against the
\* schema; an invalid list ends the run with EX_DATAERR
Validate ==
    /\ bpc = "assemble"
    /\ \E valid \in BOOLEAN :
         IF valid THEN bpc' = "valid" /\ exitCode' = exitCode
         ELSE bpc' = "invalid" /\ exitCode' = EX_DATAERR
    /\ UNCHANGED <<shouldIncrementVersion, gitChanges, baseFile,
                   packageVersion, buildFile, tokenlistTemplate,
                   updatedTemplate>>
    /\ UNCHANGED logoVars
    /\ UNCHANGED classifierVars

\* fs.writeFileSync(outputFilename, newTokenList)
WriteOutput ==
    /\ bpc = "valid"
    /\ buildFile' = Some([version |-> updatedTemplate[1].version,
                           timestamp |-> updatedTemplate[1].timestamp,
                           tokens |-> tokens])
    /\ bpc' = "written"
    /\ UNCHANGED <<shouldIncrementVersion, gitChanges, baseFile,
                   packageVersion, tokenlistTemplate, updatedTemplate,
                   exitCode>>
    /\ UNCHANGED logoVars
    /\ UNCHANGED classifierVars

\* the list is uploaded when there are credentials; a failed upload is
\* only a warning
UploadList ==
    /\ bpc = "written"
    /\ bpc' = "finished"
    /\ UNCHANGED <<shouldIncrementVersion, gitChanges, baseFile,
                   packageVersion, buildFile, tokenlistTemplate,
                   updatedTemplate, exitCode>>
    /\ UNCHANGED logoVars
    /\ UNCHANGED classifierVars

BuildNext ==
    \/ ReadChains
    \/ StartUploads \/ SettleUpload \/ FinishUploads \/ ResolveLogos
    \/ ReadTemplate \/ SkipIncrement
    \/ CallClassifier
    \/ ProcessDeleted \/ ProcessAdded \/ ProcessModified \/ Return
    \/ NoSemanticChange \/ ComputeVersion \/ WriteBase \/ WritePackage
    \/ Validate \/ WriteOutput \/ UploadList

BuildSpec == BuildInit /\ [][BuildNext]_vars

\* a sequence of runs with --increment-version, without upload
\* credentials: the files a run leaves are the files the next run finds
RunsInit ==
    /\ changes = <<>>
    /\ idx = 1
    /\ hasMajorChange = FALSE
    /\ hasMinorChange = FALSE
    /\ hasPatchChange = FALSE
    /\ result = "pending"
    /\ pc = "idle"
    /\ suspended = Undefined
    /\ shouldIncrementVersion = TRUE
    /\ gitChanges \in GitChangesArgs
    /\ \E v \in Versions :
         /\ baseFile = [version |-> v, timestamp |-> StoredTimestamp]
         /\ packageVersion = VersionString(v)
    /\ buildFile = Undefined
    /\ tokenlistTemplate = Undefined
    /\ updatedTemplate = Undefined
    /\ exitCode = 0
    /\ bpc = "start"
    /\ chainFiles = Some(<<NoLogoToken>>)
    /\ credentials = FALSE
    /\ tokens = <<>>
    /\ uploads = <<>>

\* the script is started again after a run has ended, with
\* --increment-version and some --git-changes; the runs stop once a
\* component of the stored version is above MaxVersion
NextRun ==
    /\ bpc \in {"finished", "invalid", "exited"}
    /\ baseFile.version.major <= MaxVersion
    /\ baseFile.version.minor <= MaxVersion
    /\ baseFile.version.patch <= MaxVersion
    /\ gitChanges' \in GitChangesArgs
    /\ changes' = <<>>
    /\ idx' = 1
    /\ hasMajorChange' = FALSE
    /\ hasMinorChange' = FALSE
    /\ hasPatchChange' = FALSE
    /\ result' = "pending"
    /\ pc' = "idle"
    /\ tokenlistTemplate' = Undefined
    /\ updatedTemplate' = Undefined
    /\ exitCode' = 0
    /\ bpc' = "start"
    /\ tokens' = <<>>
    /\ uploads' = <<>>
    /\ UNCHANGED <<suspended, shouldIncrementVersion, baseFile,
                   packageVersion, buildFile, chainFiles, credentials>>

RunsNext ==
    \/ ReadChains \/ ResolveLogos \/ ReadTemplate \/ CallClassifier
    \/ ProcessDeleted \/ ProcessAdded \/ ProcessModified \/ Return
    \/ NoSemanticChange \/ ComputeVersion \/ WriteBase \/ WritePackage
    \/ Validate \/ WriteOutput \/ UploadList
    \/ NextRun

RunsSpec == RunsInit /\ [][RunsNext]_vars

\* a run over every list of chains tokens, from one stored version
UploadInit ==
    /\ changes = <<>>
    /\ idx = 1
    /\ hasMajorChange = FALSE
    /\ hasMinorChange = FALSE
    /\ hasPatchChange = FALSE
    /\ result = "pending"
    /\ pc = "idle"
    /\ suspended = Undefined
    /\ shouldIncrementVersion \in BOOLEAN
    /\ gitChanges \in GitChangesArgs
    /\ baseFile = [version |-> [major |-> 1, minor |-> 2, patch |-> 3],
                   timestamp |-> StoredTimestamp]
    /\ packageVersion = "1.2.3"
    /\ buildFile = Undefined
    /\ tokenlistTemplate = Undefined
    /\ updatedTemplate = Undefined
    /\ exitCode = 0
    /\ bpc = "start"
    /\ chainFiles \in { Some(ts) : ts \in ChainsTokenLists }
    /\ credentials \in BOOLEAN
    /\ tokens = <<>>
    /\ uploads = <<>>

UploadSpec == UploadInit /\ [][BuildNext]_vars

(***************************************************************************)
(* Vocabulary of the properties.                                           *)
(***************************************************************************)
Verdicts == {"major", "minor", "patch", "null"}

\* the identity of a token: its address and its chainId
Ident(t) == <<t.address, t.chainId>>

\* the identities of the tokens of a sequence
Idents(list) == { Ident(list[i]) : i \in 1..Len(list) }

BeforeOf(change) == OrEmpty(change.before)

AfterOf(change) == OrEmpty(change.after)

Done == pc = "done"

\* the change list is one modified record
SingleModified == Len(changes) = 1 /\ changes[1].type = "modified"

\* C1: the verdict is one of major, minor, patch, none, and it is major
\* when the major flag is set, else minor when the minor flag is set, else
\* patch when the patch flag is set, else none.
C1_VerdictByPriority ==
    Done =>
      /\ result \in Verdicts
      /\ hasMajorChange => result = "major"
      /\ (~hasMajorChange /\ hasMinorChange) => result = "minor"
      /\ (~hasMajorChange /\ ~hasMinorChange /\ hasPatchChange)
            => result = "patch"
      /\ (~hasMajorChange /\ ~hasMinorChange /\ ~hasPatchChange)
            => result = "null"

\* all three flags are set and the verdict is major
C1_Witness ==
    /\ Done
    /\ hasMajorChange /\ hasMinorChange /\ hasPatchChange
    /\ result = "major"

\* C2: a change list with a deleted record returns major, whatever the
\* record's before holds and whatever the other records are.
C2_DeletedYieldsMajor ==
    (Done /\ \E i \in 1..Len(changes) : changes[i].type = "deleted")
      => result = "major"

\* a deleted record without tokens next to an added record: major
C2_Witness ==
    /\ Done
    /\ Len(changes) = 2
    /\ \E i \in 1..2 :
         changes[i].type = "deleted" /\ BeforeOf(changes[i]) = <<>>
    /\ \E i \in 1..2 : changes[i].type = "added"
    /\ result = "major"

\* a change list is only added records
OnlyAdded ==
    /\ Len(changes) > 0
    /\ \A i \in 1..Len(changes) : changes[i].type = "added"

\* C3: a change list made only of added records returns minor, whatever
\* their after holds, and processing an added record leaves the major and
\* the patch flag as they were.
C3_AddedYieldsMinor ==
    /\ [](Done /\ OnlyAdded => result = "minor")
    /\ [][(pc = "loop" /\ idx <= Len(changes)
             /\ changes[idx].type = "added")
           => /\ hasMinorChange'
              /\ hasMajorChange' = hasMajorChange
              /\ hasPatchChange' = hasPatchChange]_vars

\* an added record with an empty after: minor
C3_Witness ==
    /\ Done
    /\ OnlyAdded
    /\ \E i \in 1..Len(changes) : AfterOf(changes[i]) = <<>>
    /\ result = "minor"

\* a modified record that lost a token: an identity of before is not in after
LostToken(change) ==
    /\ change.type = "modified"
    /\ Idents(BeforeOf(change)) \ Idents(AfterOf(change)) # {}

\* C4: a change list with a modified record in which an identity of before
\* is absent from after returns major, whatever else changed.
C4_RemovedTokenYieldsMajor ==
    (Done /\ \E i \in 1..Len(changes) : LostToken(changes[i]))
      => result = "major"

\* a record that lost its second token and got a new one: major
C4_Witness ==
    /\ Done
    /\ SingleModified
    /\ Len(BeforeOf(changes[1])) = 2
    /\ Ident(BeforeOf(changes[1])[1]) \in Idents(AfterOf(changes[1]))
    /\ Ident(BeforeOf(changes[1])[2]) \notin Idents(AfterOf(changes[1]))
    /\ Idents(AfterOf(changes[1])) \ Idents(BeforeOf(changes[1])) # {}
    /\ result = "major"

\* a single modified record that only gained tokens
PureAddition ==
    /\ SingleModified
    /\ Idents(BeforeOf(changes[1])) \subseteq Idents(AfterOf(changes[1]))
    /\ Idents(AfterOf(changes[1])) \ Idents(BeforeOf(changes[1])) # {}

\* C5: a single modified record that keeps every identity of before and
\* has an identity in after that before lacks returns minor, also when the
\* metadata of a kept token changed.
C5_PureAdditionYieldsMinor ==
    (Done /\ PureAddition) => result = "minor"

\* a token added behind a kept token whose metadata changed: minor,
\* with the patch flag set
C5_Witness ==
    /\ Done
    /\ PureAddition
    /\ Len(BeforeOf(changes[1])) = 1
    /\ Len(AfterOf(changes[1])) = 2
    /\ Ident(AfterOf(changes[1])[1]) = Ident(BeforeOf(changes[1])[1])
    /\ hasPatchChange
    /\ result = "minor"

\* after is before with field f of its token i changed, nothing else
FieldChangedAt(b, a, i, f) ==
    /\ Len(a) = Len(b)
    /\ a[i][f] # b[i][f]
    /\ a = [b EXCEPT ![i][f] = a[i][f]]

\* no token behind position i of s has the identity of s[i]
LastOfItsIdent(s, i) ==
    \A j \in (i + 1)..Len(s) : Ident(s[j]) # Ident(s[i])

\* no other token of s has the identity of s[i]
OnlyOfItsIdent(s, i) ==
    \A j \in 1..Len(s) : j # i => Ident(s[j]) # Ident(s[i])

\* C6 as stated: a single modified record in which one of name, symbol,
\* logoURI, decimals of one token changed and nothing else returns patch.
C6_Original ==
    (Done /\ SingleModified
       /\ \E i \in 1..Len(BeforeOf(changes[1])) : \E f \in fieldsToCheck :
            FieldChangedAt(BeforeOf(changes[1]), AfterOf(changes[1]), i, f))
      => result = "patch"

\* C6: a single modified record in which one of name, symbol, logoURI,
\* decimals of one token changed and nothing else returns patch, provided
\* no later token of the sequence shares the identity of the changed token.
C6_MetadataChangeYieldsPatch ==
    (Done /\ SingleModified
       /\ \E i \in 1..Len(BeforeOf(changes[1])) : \E f \in fieldsToCheck :
            /\ FieldChangedAt(BeforeOf(changes[1]), AfterOf(changes[1]), i, f)
            /\ LastOfItsIdent(BeforeOf(changes[1]), i))
      => (result = "patch" /\ ~hasMajorChange /\ ~hasMinorChange)

\* only decimals of the second of two tokens changed: patch
C6_Witness ==
    /\ Done
    /\ SingleModified
    /\ Len(BeforeOf(changes[1])) = 2
    /\ FieldChangedAt(BeforeOf(changes[1]), AfterOf(changes[1]), 2,
                      "decimals")
    /\ result = "patch"

\* after is before with the address of its token i changed; the chainId of
\* that token and all other tokens are as before
AddressChangedAt(b, a, i) ==
    /\ Len(a) = Len(b)
    /\ a[i].address # b[i].address
    /\ a[i].chainId = b[i].chainId
    /\ \A j \in 1..Len(b) : j # i => a[j] = b[j]

\* C7 as stated: a single modified record in which the address of one
\* token changed returns major.
C7_Original ==
    (Done /\ SingleModified
       /\ \E i \in 1..Len(BeforeOf(changes[1])) :
            AddressChangedAt(BeforeOf(changes[1]), AfterOf(changes[1]), i))
      => result = "major"

\* C7: a single modified record in which the address of one token changed
\* returns major, also when name, symbol, logoURI and decimals of that
\* token changed, provided no other token of the record has the identity
\* the token had before the change.
C7_AddressChangeYieldsMajor ==
    (Done /\ SingleModified
       /\ \E i \in 1..Len(BeforeOf(changes[1])) :
            /\ AddressChangedAt(BeforeOf(changes[1]), AfterOf(changes[1]), i)
            /\ OnlyOfItsIdent(BeforeOf(changes[1]), i))
      => result = "major"

\* the address and all four metadata fields of one token changed: major
C7_Witness ==
    /\ Done
    /\ SingleModified
    /\ \E i \in 1..Len(BeforeOf(changes[1])) :
         /\ AddressChangedAt(BeforeOf(changes[1]), AfterOf(changes[1]), i)
         /\ \A f \in fieldsToCheck :
              AfterOf(changes[1])[i][f] # BeforeOf(changes[1])[i][f]
    /\ result = "major"

\* after is before with the chainId of its token i changed; the address of
\* that token and all other tokens are as before
ChainIdChangedAt(b, a, i) ==
    /\ Len(a) = Len(b)
    /\ a[i].chainId # b[i].chainId
    /\ a[i].address = b[i].address
    /\ \A j \in 1..Len(b) : j # i => a[j] = b[j]

\* C8 as stated: a single modified record in which the chainId of one
\* token changed and its address did not returns major.
C8_Original ==
    (Done /\ SingleModified
       /\ \E i \in 1..Len(BeforeOf(changes[1])) :
            ChainIdChangedAt(BeforeOf(changes[1]), AfterOf(changes[1]), i))
      => result = "major"

\* C8: a single modified record in which the chainId of one token changed
\* and its address did not returns major, for every two different chainId
\* values, absent and 0 included, provided no other token of the record
\* has the identity the token had before the change.
C8_ChainIdChangeYieldsMajor ==
    (Done /\ SingleModified
       /\ \E i \in 1..Len(BeforeOf(changes[1])) :
            /\ ChainIdChangedAt(BeforeOf(changes[1]), AfterOf(changes[1]), i)
            /\ OnlyOfItsIdent(BeforeOf(changes[1]), i))
      => result = "major"

\* the chainId of a token went from absent to 0: major
C8_Witness ==
    /\ Done
    /\ SingleModified
    /\ \E i \in 1..Len(BeforeOf(changes[1])) :
         /\ ChainIdChangedAt(BeforeOf(changes[1]), AfterOf(changes[1]), i)
         /\ BeforeOf(changes[1])[i].chainId = Undefined
         /\ AfterOf(changes[1])[i].chainId = Some(0)
    /\ result = "major"

\* the rearrangements of a sequence
Rearrangements(s) ==
    { [i \in 1..Len(s) |-> s[p[i]]] :
        p \in { q \in [1..Len(s) -> 1..Len(s)] :
                  \A i, j \in 1..Len(s) : q[i] = q[j] => i = j } }

\* the change lists got from cl by rearranging one side of one record
SideRearranged(cl) ==
    UNION { { [cl EXCEPT ![i].before = Some(p)] :
                p \in Rearrangements(BeforeOf(cl[i])) }
            \cup { [cl EXCEPT ![i].after = Some(p)] :
                     p \in Rearrangements(AfterOf(cl[i])) } :
            i \in 1..Len(cl) }

\* tokens of s that share an identity are equal in the compared fields
DuplicatesAgree(s) ==
    \A i, j \in 1..Len(s) :
      Ident(s[i]) = Ident(s[j])
        => \A f \in fieldsToCheck : s[i][f] = s[j][f]

\* C9 as stated: rearranging the tokens of the before or of the after of
\* a record never changes the verdict.
C9_Original ==
    Done => \A cl \in SideRearranged(changes) :
              determineVersionIncrement(cl) = result

\* C9: rearranging the tokens of the before or of the after of a record
\* never changes the verdict, provided that within each side of each record
\* the tokens that share an identity are equal in name, symbol, logoURI and
\* decimals.
C9_PermutationInvariance ==
    (Done /\ \A i \in 1..Len(changes) :
               /\ DuplicatesAgree(BeforeOf(changes[i]))
               /\ DuplicatesAgree(AfterOf(changes[i])))
      => \A cl \in SideRearranged(changes) :
           determineVersionIncrement(cl) = result

\* after holds the two tokens of before in the other order and one of them
\* with changed metadata: patch, as for every rearrangement
C9_Witness ==
    /\ Done
    /\ SingleModified
    /\ Len(BeforeOf(changes[1])) = 2
    /\ Len(AfterOf(changes[1])) = 2
    /\ Ident(BeforeOf(changes[1])[1]) = Ident(AfterOf(changes[1])[2])
    /\ Ident(BeforeOf(changes[1])[2]) = Ident(AfterOf(changes[1])[1])
    /\ Ident(BeforeOf(changes[1])[1]) # Ident(BeforeOf(changes[1])[2])
    /\ result = "patch"

\* a modified record whose sides hold the same identities, every token of
\* before being equal in the compared fields to the tokens of after that
\* share its identity
SameTokenSets(change) ==
    /\ change.type = "modified"
    /\ Idents(BeforeOf(change)) = Idents(AfterOf(change))
    /\ \A i \in 1..Len(BeforeOf(change)) :
         \A j \in 1..Len(AfterOf(change)) :
           Ident(BeforeOf(change)[i]) = Ident(AfterOf(change)[j])
             => \A f \in fieldsToCheck :
                  BeforeOf(change)[i][f] = AfterOf(change)[j][f]

C11_RecordOrderIrrelevant ==
    Done => \A cl \in Rearrangements(changes) :
              determineVersionIncrement(cl) = result

\* two different records, one of them a modified record that sets a flag
C11_Witness ==
    /\ Done
    /\ Len(changes) = 2
    /\ changes[1].type # changes[2].type
    /\ changes[1].type = "modified"
    /\ determineVersionIncrement(<<changes[1]>>) # "null"
    /\ determineVersionIncrement(<<changes[1]>>)
         # determineVersionIncrement(<<changes[2]>>)
    /\ result = determineVersionIncrement(<<changes[2], changes[1]>>)

\* the priority of a verdict
Rank(v) ==
    IF v = "major" THEN 3 ELSE IF v = "minor" THEN 2
    ELSE IF v = "patch" THEN 1 ELSE 0

\* the verdicts of the records of cl, each classified alone
SingleVerdicts(cl) ==
    { determineVersionIncrement(<<cl[i]>>) : i \in 1..Len(cl) }

\* C12: the verdict of a change list is the highest verdict among its
\* records classified one at a time (none for the empty list), and
\* appending a record to a change list of fewer than MaxChanges records
\* never lowers the verdict.
C12_HighestRecordVerdict ==
    Done =>
      /\ \A v \in SingleVerdicts(changes) : Rank(v) <= Rank(result)
      /\ result \in SingleVerdicts(changes) \cup {"null"}
      /\ result = "null" => SingleVerdicts(changes) \subseteq {"null"}
      /\ (Len(changes) < MaxChanges /\ changes \in ListInputs) =>
           \A r \in ListRecords :
             Rank(determineVersionIncrement(Append(changes, r)))
               >= Rank(result)

\* one record of pure addition and one of pure metadata change: minor
C12_Witness ==
    /\ Done
    /\ Len(changes) = 2
    /\ \E i, j \in 1..2 :
         /\ changes[i].type = "modified"
         /\ changes[j].type = "modified"
         /\ determineVersionIncrement(<<changes[i]>>) = "minor"
         /\ determineVersionIncrement(<<changes[j]>>) = "patch"
    /\ result = "minor"

\* cl with every missing before or after replaced by the empty sequence
AbsentAsEmpty(cl) ==
    [i \in 1..Len(cl) |->
       [cl[i] EXCEPT !.before = Some(OrEmpty(cl[i].before)),
                     !.after = Some(OrEmpty(cl[i].after))]]

\* C13: for every change list (missing or empty sides, tokens without
\* chainId or logoURI, duplicate keys) the function returns: it reaches
\* its return, with a verdict, and the verdict is the one of the list with
\* its missing sides made empty.
C13_Total ==
    /\ <>Done
    /\ [](/\ pc \in {"loop", "done"}
          /\ Done => /\ result \in Verdicts
                      /\ result = determineVersionIncrement(
                                    AbsentAsEmpty(changes)))

\* a modified record without before whose after holds a token: minor
C13_Witness ==
    /\ Done
    /\ SingleModified
    /\ changes[1].before = Undefined
    /\ changes[1].after # Undefined
    /\ Len(AfterOf(changes[1])) = 1
    /\ result = "minor"

\* the index of the last token of s with the identity id
LastIndexOf(s, id) ==
    CHOOSE i \in 1..Len(s) : Ident(s[i]) = id /\ LastOfItsIdent(s, i)

\* the map of s has one entry per identity, holding its last token
MapKeepsLast(s) ==
    /\ Len(MapOf(s)) = Cardinality(Idents(s))
    /\ \A id \in Idents(s) :
         \E k \in 1..Len(MapOf(s)) :
           MapOf(s)[k].token = s[LastIndexOf(s, id)]

\* s without the tokens that a later token of the same identity follows
KeepLast(s) ==
    LET keep == { i \in 1..Len(s) : LastOfItsIdent(s, i) }
        Nth(n) == CHOOSE i \in keep :
                    Cardinality({ j \in keep : j <= i }) = n
    IN  [n \in 1..Cardinality(keep) |-> s[Nth(n)]]

\* C19: the map of a side keeps one entry per identity key, the last
\* token of that key, and the verdict is the one of the record without the
\* earlier tokens of a repeated key.
C19_LastDuplicateWins ==
    (Done /\ SingleModified) =>
      /\ MapKeepsLast(BeforeOf(changes[1]))
      /\ MapKeepsLast(AfterOf(changes[1]))
      /\ result = determineVersionIncrement(
                    <<Change("modified",
                             Some(KeepLast(BeforeOf(changes[1]))),
                             Some(KeepLast(AfterOf(changes[1]))))>>)

\* before holds a key twice with different metadata and after holds the
\* second of the two tokens: none
C19_Witness ==
    /\ Done
    /\ SingleModified
    /\ Len(BeforeOf(changes[1])) = 2
    /\ Len(AfterOf(changes[1])) = 1
    /\ Ident(BeforeOf(changes[1])[1]) = Ident(BeforeOf(changes[1])[2])
    /\ BeforeOf(changes[1])[1] # BeforeOf(changes[1])[2]
    /\ AfterOf(changes[1])[1] = BeforeOf(changes[1])[2]
    /\ result = "null"

\* the record holds one token before and one after, of the same address
\* and both without chainId
SameAddressNoChainId ==
    /\ SingleModified
    /\ Len(BeforeOf(changes[1])) = 1
    /\ Len(AfterOf(changes[1])) = 1
    /\ BeforeOf(changes[1])[1].chainId = Undefined
    /\ AfterOf(changes[1])[1].chainId = Undefined
    /\ BeforeOf(changes[1])[1].address = AfterOf(changes[1])[1].address

\* C20: two tokens of the same address that both lack chainId have the
\* same key and are one token across before and after: patch when a
\* compared field differs, none when none does, never major or minor.
C20_NoChainIdSameToken ==
    (Done /\ SameAddressNoChainId) =>
      /\ TokenKey(BeforeOf(changes[1])[1]) = TokenKey(AfterOf(changes[1])[1])
      /\ ~hasMajorChange /\ ~hasMinorChange
      /\ result = IF \E f \in fieldsToCheck :
                       BeforeOf(changes[1])[1][f] # AfterOf(changes[1])[1][f]
                  THEN "patch" ELSE "null"

\* two tokens without chainId that differ in the name: patch
C20_Witness ==
    /\ Done
    /\ SameAddressNoChainId
    /\ BeforeOf(changes[1])[1].name # AfterOf(changes[1])[1].name
    /\ result = "patch"

(***************************************************************************)
(* Properties of the build script (BuildSpec).                             *)
(***************************************************************************)
\* the run was started with --increment-version and the classifier has
\* returned
Classified == shouldIncrementVersion /\ pc = "done"

\* the version base.tokenlist.json held when the run read it
StoredVersion == tokenlistTemplate[1].version

\* positions of the script after the write of package.json
AfterVersionWrites == {"assemble", "valid", "invalid", "written", "finished"}

\* C14: in a run with --increment-version whose verdict is not none, the
\* new version is (M+1, 0, 0) for major, (M, m+1, 0) for minor and
\* (M, m, p+1) for patch, where (M, m, p) is the version read from
\* base.tokenlist.json; it is what the script then stores in
\* base.tokenlist.json and, as text, in package.json.
C14_NewVersionByVerdict ==
    (Classified /\ result # "null" /\ bpc # "classify") =>
        LET M == StoredVersion.major
            m == StoredVersion.minor
            p == StoredVersion.patch
            new == updatedTemplate[1].version
        IN  /\ result = "major" =>
                 new = [major |-> M + 1, minor |-> 0, patch |-> 0]
            /\ result = "minor" =>
                 new = [major |-> M, minor |-> m + 1, patch |-> 0]
            /\ result = "patch" =>
                 new = [major |-> M, minor |-> m, patch |-> p + 1]
            /\ bpc \in AfterVersionWrites =>
                 /\ baseFile.version = new
                 /\ packageVersion = VersionString(new)

\* a finished run with verdict minor on a stored version with patch > 0:
\* the stored files hold minor + 1 and patch 0
C14_Witness ==
    /\ Classified
    /\ bpc = "finished"
    /\ result = "minor"
    /\ StoredVersion.patch > 0
    /\ baseFile.version.patch = 0
    /\ baseFile.version.minor = StoredVersion.minor + 1

\* C15: in a run with --increment-version whose verdict is none, the
\* script never reaches the writes of base.tokenlist.json and
\* package.json, both files keep what they held, and the built list
\* carries the version and timestamp read from base.tokenlist.json.
C15_NoneLeavesVersionUntouched ==
    (Classified /\ result = "null") =>
        /\ bpc \notin {"computed", "baseWritten"}
        /\ baseFile = tokenlistTemplate[1]
        /\ baseFile.timestamp = StoredTimestamp
        /\ packageVersion = VersionString(StoredVersion)
        /\ bpc # "classify" => updatedTemplate = tokenlistTemplate
        /\ buildFile # Undefined =>
             /\ buildFile[1].version = StoredVersion
             /\ buildFile[1].timestamp = StoredTimestamp

\* a run with verdict none has written the built list
C15_Witness ==
    /\ Classified
    /\ result = "null"
    /\ bpc = "finished"
    /\ buildFile # Undefined
    /\ buildFile[1].timestamp = StoredTimestamp

\* C16: in no state of a build run does base.tokenlist.json hold a new
\* version while package.json still holds the version the run started
\* with.
C16_VersionReplacedAtomically ==
    tokenlistTemplate # Undefined =>
        ~ /\ baseFile.version # StoredVersion
          /\ packageVersion = VersionString(StoredVersion)

\* C17: when a run with --increment-version ends because the merged list
\* fails schema validation, base.tokenlist.json and package.json hold the
\* version they held before the run.
C17_InvalidListKeepsVersion ==
    (shouldIncrementVersion /\ bpc = "invalid" /\ exitCode = EX_DATAERR) =>
        /\ baseFile.version = StoredVersion
        /\ packageVersion = VersionString(StoredVersion)

\* base.tokenlist.json, package.json and build/tallycash.tokenlist.json
\* are left as they are by a step
FilesUntouched ==
    /\ baseFile' = baseFile
    /\ packageVersion' = packageVersion
    /\ buildFile' = buildFile

\* C18 as stated: in every build run, no step writes base.tokenlist.json,
\* package.json or build/tallycash.tokenlist.json unless
\* determineVersionIncrement has returned.
C18_Original == [][pc' # "done" => FilesUntouched]_vars

\* C18: in every build run with --increment-version, the change list is
\* complete when determineVersionIncrement is called and stays as it is
\* while it runs, and no step writes base.tokenlist.json, package.json or
\* build/tallycash.tokenlist.json before determineVersionIncrement has
\* returned; whatever is written is written after the return.
C18_VerdictBeforeWrites ==
    /\ [][(shouldIncrementVersion /\ pc' # "done") => FilesUntouched]_vars
    /\ [][pc = "loop" => changes' = changes]_vars
    /\ [](pc = "loop" =>
            changes = parseGitChanges(OrEmptyString(gitChanges)))
    /\ []((shouldIncrementVersion /\ buildFile # Undefined) => pc = "done")

\* a run with --increment-version has classified a non-empty change list
\* and written all three files
C18_Witness ==
    /\ Classified
    /\ Len(changes) > 0
    /\ bpc = "written"
    /\ baseFile.version # StoredVersion
    /\ packageVersion = VersionString(baseFile.version)
    /\ buildFile # Undefined

(***************************************************************************)
(* More properties of determineVersionIncrement.                           *)
(***************************************************************************)
\* no two tokens of the sequence have the same identity
NoDuplicateIdents(s) ==
    \A i, j \in 1..Len(s) : Ident(s[i]) = Ident(s[j]) => i = j

\* the reference verdict of one modified record with sides b and a
ReferenceVerdict(b, a) ==
    IF \E i \in 1..Len(b) : Ident(b[i]) \notin Idents(a) THEN "major"
    ELSE IF \E j \in 1..Len(a) : Ident(a[j]) \notin Idents(b) THEN "minor"
    ELSE IF \E i \in 1..Len(b), j \in 1..Len(a) :
              /\ Ident(b[i]) = Ident(a[j])
              /\ \/ b[i].name # a[j].name
                 \/ b[i].symbol # a[j].symbol
                 \/ b[i].logoURI # a[j].logoURI
                 \/ b[i].decimals # a[j].decimals
    THEN "patch"
    ELSE "null"

\* C21: for a single modified record whose sides have no duplicate keys
\* the verdict is the reference: major if a before key is missing after,
\* else minor if an after key is missing before, else patch if a shared
\* key has tokens that differ in name, symbol, logoURI or decimals, else
\* none.
C21_MatchesReference ==
    (/\ Done
     /\ SingleModified
     /\ NoDuplicateIdents(BeforeOf(changes[1]))
     /\ NoDuplicateIdents(AfterOf(changes[1])))
    => result = ReferenceVerdict(BeforeOf(changes[1]), AfterOf(changes[1]))

\* two tokens before and after, the only difference being a logoURI that
\* is present before and absent after: patch
C21_Witness ==
    /\ Done
    /\ SingleModified
    /\ Len(BeforeOf(changes[1])) = 2
    /\ Len(AfterOf(changes[1])) = 2
    /\ NoDuplicateIdents(BeforeOf(changes[1]))
    /\ NoDuplicateIdents(AfterOf(changes[1]))
    /\ \E i, j \in 1..2 :
         /\ BeforeOf(changes[1])[i].logoURI # Undefined
         /\ AfterOf(changes[1])[j] =
              [BeforeOf(changes[1])[i] EXCEPT !.logoURI = Undefined]
    /\ result = "patch"

\* the record has a before identity missing after and an after identity
\* missing before
RemovalAndAddition(change) ==
    /\ change.type = "modified"
    /\ \E i \in 1..Len(BeforeOf(change)) :
         Ident(BeforeOf(change)[i]) \notin Idents(AfterOf(change))
    /\ \E j \in 1..Len(AfterOf(change)) :
         Ident(AfterOf(change)[j]) \notin Idents(BeforeOf(change))

\* C22: once a modified record with both a removed and an added identity
\* has been processed, the major flag and the minor flag are both set.
C22_AddedCheckIndependent ==
    \A i \in 1..Len(changes) :
      (i < idx /\ RemovalAndAddition(changes[i]))
        => (hasMajorChange /\ hasMinorChange)

\* the loop has just processed such a record, before the return
C22_Witness ==
    /\ pc = "loop"
    /\ idx = 2
    /\ Len(changes) = 1
    /\ RemovalAndAddition(changes[1])
    /\ hasMajorChange
    /\ hasMinorChange

\* C23: the function does not change the change list it is given, and the
\* verdict of a call is the verdict of its change list alone, whatever
\* calls returned before it and whatever other activation ran in between.
C23_Pure ==
    /\ [](Done => result = determineVersionIncrement(changes))
    /\ []((suspended # Undefined /\ suspended[1].pc = "done") =>
            suspended[1].result =
              determineVersionIncrement(suspended[1].changes))
    /\ [][(pc = "loop" /\ suspended' = suspended) => changes' = changes]_vars

\* a call returns none for its change list while another activation is in
\* its loop with the major flag set
C23_Witness ==
    /\ Done
    /\ Len(changes) = 1
    /\ changes[1].type = "modified"
    /\ result = "null"
    /\ suspended # Undefined
    /\ suspended[1].pc = "loop"
    /\ suspended[1].hasMajorChange

\* C27: the copy of determineVersionIncrement in the test file returns
\* the verdict of the build script for every change list whose tokens
\* have chainId absent or an integer, 0 included, several tokens of one
\* address included.
C27_CopiesAgree ==
    Done => determineVersionIncrementTest(changes) = result

\* the token with one more field, which is not among the compared ones
WithTags(t, v) ==
    [k \in DOMAIN t \cup {"tags"} |-> IF k = "tags" THEN v ELSE t[k]]

TagValues == {"stablecoin", "wrapped"}

\* the files named by the rule n: all the same, or alternating
FileOf(n, i) ==
    IF n = 1 THEN "chains/1.json"
    ELSE IF n = 2 THEN "chains/137.json"
    ELSE IF i % 2 = 1 THEN "chains/10.json" ELSE "chains/42161.json"

\* the side with the tag v on every token
TaggedSide(side, v) ==
    IF side = Undefined THEN Undefined
    ELSE Some([i \in 1..Len(side[1]) |-> WithTags(side[1][i], v)])

\* the change lists that differ from cl only in the file identifiers and
\* in the tags of the tokens, before and after tagged independently
SameButInformational(cl) ==
    { [i \in 1..Len(cl) |->
         [cl[i] EXCEPT !.file = FileOf(n, i),
                       !.before = TaggedSide(cl[i].before, vb),
                       !.after = TaggedSide(cl[i].after, va)]] :
      n \in 1..3, vb \in TagValues, va \in TagValues }
    \cup
    { [i \in 1..Len(cl) |-> [cl[i] EXCEPT !.file = FileOf(n, i)]] :
      n \in 1..3 }

\* C28: a change list that differs from the given one only in the file
\* identifiers of its records and in a token field other than address,
\* chainId, name, symbol, logoURI and decimals has the same verdict.
C28_OnlyComparedFieldsCount ==
    Done => \A cl \in SameButInformational(changes) :
              determineVersionIncrement(cl) = result

\* a list whose second record is modified with the same token on both
\* sides: none, also when the file names and the tags differ
C28_Witness ==
    /\ Done
    /\ Len(changes) = 2
    /\ changes[1].type = "modified"
    /\ changes[2].type = "modified"
    /\ Len(BeforeOf(changes[2])) = 1
    /\ BeforeOf(changes[2]) = AfterOf(changes[2])
    /\ result = "null"
    /\ \E cl \in SameButInformational(changes) :
         /\ cl[1].file # cl[2].file
         /\ "tags" \in DOMAIN cl[2].before[1][1]
         /\ cl[2].before[1][1].tags # cl[2].after[1][1].tags
         /\ determineVersionIncrement(cl) = "null"

(***************************************************************************)
(* More properties of the build script.                                    *)
(***************************************************************************)
\* C24: a run without --increment-version never calls the classifier,
\* never reaches the version writes, and none of its steps changes
\* base.tokenlist.json or package.json, whatever --git-changes holds.
C24_VersionOnlyByIncrement ==
    /\ [](~shouldIncrementVersion =>
            /\ pc = "idle"
            /\ bpc \notin {"classify", "computed", "baseWritten"})
    /\ [][~shouldIncrementVersion =>
            /\ baseFile' = baseFile
            /\ packageVersion' = packageVersion]_vars

\* a run without --increment-version but with the changes of a deleted
\* file has written the built list
C24_Witness ==
    /\ ~shouldIncrementVersion
    /\ gitChanges # Undefined
    /\ gitChanges[1].kind = "base64json"
    /\ Len(gitChanges[1].value) = 1
    /\ gitChanges[1].value[1].type = "deleted"
    /\ bpc = "finished"
    /\ buildFile # Undefined
    /\ baseFile = tokenlistTemplate[1]

\* --git-changes is missing, empty, or not base64 of JSON
UnusableGitChanges ==
    \/ gitChanges = Undefined
    \/ gitChanges[1].kind \in {"empty", "garbage"}

\* C25: with --git-changes missing, empty or not decodable,
\* parseGitChanges returns the empty list, the verdict is none, and a run
\* with --increment-version goes on without touching base.tokenlist.json
\* and package.json.
C25_UnusableChangesGiveNone ==
    /\ [](UnusableGitChanges =>
            /\ parseGitChanges(OrEmptyString(gitChanges)) = <<>>
            /\ (shouldIncrementVersion /\ pc # "idle") => changes = <<>>
            /\ Classified => result = "null"
            /\ bpc \notin {"computed", "baseWritten"}
            /\ tokenlistTemplate # Undefined =>
                 /\ baseFile = tokenlistTemplate[1]
                 /\ packageVersion = VersionString(StoredVersion)
            /\ exitCode # 0 => bpc \in {"exited", "invalid"})
    /\ [][UnusableGitChanges =>
            /\ baseFile' = baseFile
            /\ packageVersion' = packageVersion]_vars

\* a run with --increment-version and undecodable --git-changes has
\* finished with the stored version as it was
C25_Witness ==
    /\ Classified
    /\ gitChanges = Some([kind |-> "garbage"])
    /\ changes = <<>>
    /\ result = "null"
    /\ bpc = "finished"
    /\ exitCode = 0
    /\ baseFile = tokenlistTemplate[1]

\* C29: when schema validation fails the run ends there with exit code
\* 65 and build/tallycash.tokenlist.json has not been written; a run with
\* exit code 65 never writes or uploads the list.
C29_InvalidListNotWritten ==
    /\ [](bpc = "invalid" => (exitCode = 65 /\ buildFile = Undefined))
    /\ [](exitCode = 65 =>
            /\ bpc \in {"exited", "invalid"}
            /\ buildFile = Undefined)
    /\ [][bpc # "invalid"]_vars

\* validation has failed in a run that has upload credentials
C29_Witness ==
    /\ bpc = "invalid"
    /\ exitCode = 65
    /\ credentials
    /\ Len(tokens) > 0
    /\ buildFile = Undefined

\* the settled upload of the token at position i
UploadOf(i) == uploads[CHOOSE k \in 1..Len(uploads) : uploads[k].index = i]

\* the token the output must hold for the chains token t, given whether
\* its upload succeeded
ExpectedToken(t, ok) ==
    IF t.logoURI = Undefined THEN t
    ELSE IF ok
    THEN [t EXCEPT !.logoURI =
            Some([relative |-> FALSE,
                  rest |-> "ipfs://cid" \o t.logoURI[1].rest])]
    ELSE IF t.logoURI[1].relative
    THEN [t EXCEPT !.logoURI =
            Some([relative |-> FALSE,
                  rest |-> "https://github.com/tallycash/token-list/raw/main"
                           \o t.logoURI[1].rest])]
    ELSE t

\* the logoURIs have been resolved
LogosResolved == bpc \notin {"start", "tokens", "uploading", "exited"}

\* C30: with credentials, whatever order the uploads settle in and
\* whichever of them fail, the run goes on, and the tokens are the chains
\* tokens in their order, each with the ipfs URI of its own upload, or
\* with the GitHub raw URL when its own upload failed, or unchanged when
\* it has no logoURI; the built list holds them in that order.
C30_UploadsIndependent ==
    /\ (credentials /\ uploads # <<>>) => bpc # "exited"
    /\ (credentials /\ LogosResolved) =>
         /\ Len(tokens) = Len(chainFiles[1])
         /\ \A i \in 1..Len(tokens) :
              /\ chainFiles[1][i].logoURI # Undefined =>
                   Cardinality({k \in 1..Len(uploads) :
                                  uploads[k].index = i}) = 1
              /\ tokens[i] =
                   ExpectedToken(chainFiles[1][i],
                                 /\ chainFiles[1][i].logoURI # Undefined
                                 /\ UploadOf(i).ok)
         /\ buildFile # Undefined => buildFile[1].tokens = tokens

\* two tokens with logo files: the upload of the second settled first and
\* succeeded, the upload of the first failed; the list is written
C30_Witness ==
    /\ credentials
    /\ bpc = "finished"
    /\ chainFiles = Some(<<RelativeLogoToken, OtherLogoToken>>)
    /\ uploads = <<[index |-> 2, ok |-> TRUE], [index |-> 1, ok |-> FALSE]>>
    /\ buildFile # Undefined
    /\ buildFile[1].tokens[1].address = "0xaaa"
    /\ buildFile[1].tokens[1].logoURI[1].rest =
         "https://github.com/tallycash/token-list/raw/main/logos/aaa.png"
    /\ buildFile[1].tokens[2].logoURI[1].rest = "ipfs://cid/logos/bbb.png"

\* v comes before w in lexicographic order
LexLess(v, w) ==
    \/ v.major < w.major
    \/ v.major = w.major /\ v.minor < w.minor
    \/ v.major = w.major /\ v.minor = w.minor /\ v.patch < w.patch

\* C26: over a sequence of runs with --increment-version, no step lowers
\* the version in base.tokenlist.json in lexicographic order, its three
\* components stay non-negative integers, and a run whose verdict is not
\* none leaves a version above the one it read.
C26_VersionMonotone ==
    /\ [][\/ baseFile'.version = baseFile.version
          \/ LexLess(baseFile.version, baseFile'.version)]_vars
    /\ [](/\ baseFile.version.major \in Nat
          /\ baseFile.version.minor \in Nat
          /\ baseFile.version.patch \in Nat)
    /\ []((/\ Classified
           /\ result # "null"
           /\ bpc \in {"baseWritten"} \cup AfterVersionWrites)
          => LexLess(StoredVersion, baseFile.version))
    /\ []((Classified /\ result = "null")
          => baseFile.version = StoredVersion)

\* a later run, which read the version an earlier run wrote, has ended
\* with verdict patch
C26_Witness ==
    /\ Classified
    /\ bpc = "finished"
    /\ tokenlistTemplate[1].timestamp = CurrentTimestamp
    /\ result = "patch"
    /\ baseFile.version.patch = StoredVersion.patch + 1
    /\ LexLess(StoredVersion, baseFile.version)

====
